---- MODULE Spec2Model ----
(***************************************************************************)
(* OCR text-to-structured-data pipeline of Extracr: main.py (batch OCR      *)
(* ingestion, generic field extraction) and parse_balance_sheet.py          *)
(* (numeric cleaner, label normalizer, balance-sheet row parser, additive   *)
(* merge into the stored record).                                           *)
(*                                                                          *)
(* Text is a sequence of one-character strings.  Python's re patterns are   *)
(* represented as pattern trees and run by a backtracking matcher that      *)
(* returns the candidate matches in re's priority order, so that greedy,    *)
(* lazy, optional and anchored parts behave as in the source.               *)
(***************************************************************************)
EXTENDS Integers, Sequences, FiniteSets, TLC

VARIABLES
    \* a call of num_clean: its argument and its result
    numTok, numOut,
    \* a call of clean_label: its argument and its result
    lblIn, lblOut,
    \* parse_balance_sheet_text: its argument, the lines consumed by the loop, its locals
    \* rows and seen, and the results of extract_two_years_from_line so far (history)
    raw_text, lineNo, rows, seen, results,
    \* parse_fields: its argument, the matches of kv_pattern.finditer and how many the
    \* loop has consumed, its local fields, and where the function is
    pfText, pfMatches, pfIdx, fields, pfPc,
    \* the ocr_documents table, the run of parse_balance_sheet.main (its position, the
    \* row it fetched, its parse result), the number of writes by other writers, per
    \* record the value each other top-level key was last given by a writer (history),
    \* and whether the record had changed since the fetch when the update ran (history)
    table, bsPc, bsRow, bsParsed, writes, lastSet, bsStale,
    \* a run of main.py: its position, sys.argv[1:], input_paths, the loop index, the
    \* paths handed to process_image_path so far (history), the rows inserted, the exit
    \* status, whether the store is reachable, and where it was found unreachable (history)
    pc, argv, input_paths, idx, attempted, saved, exitStatus, storeUp, storeFailedAt

numVars == <<numTok, numOut>>
lblVars == <<lblIn, lblOut>>
rowVars == <<raw_text, lineNo, rows, seen, results>>
pfVars == <<pfText, pfMatches, pfIdx, fields, pfPc>>
dbVars == <<table, bsPc, bsRow, bsParsed, writes, lastSet, bsStale>>
runVars == <<pc, argv, input_paths, idx, attempted, saved, exitStatus, storeUp, storeFailedAt>>
vars == <<numVars, lblVars, rowVars, pfVars, dbVars, runVars>>

\* Python's None
None == [none |-> TRUE]
\* a result not computed yet
Pending == [pending |-> TRUE]

(***************************************************************************)
(* Characters and character classes                                         *)
(***************************************************************************)
LOWERCASE == <<"a","b","c","d","e","f","g","h","i","j","k","l","m","n","o","p","q","r","s","t","u","v","w","x","y","z">>
UPPERCASE == <<"A","B","C","D","E","F","G","H","I","J","K","L","M","N","O","P","Q","R","S","T","U","V","W","X","Y","Z">>
Range(s) == {s[i] : i \in DOMAIN s}
Lowers == Range(LOWERCASE)
Uppers == Range(UPPERCASE)
Digits == {"0","1","2","3","4","5","6","7","8","9"}
\* \s of re and the default set of str.strip()
Whitespace == {" ", "\t", "\n", "\r", "\f"}
\* \w of re
WordChars == Lowers \cup Uppers \cup Digits \cup {"_"}
\* the em dash of clean_label's strip set, written as one model character
EMDASH == "<emdash>"

\* str.lower() on one character
LowerChar(c) ==
    IF c \in Uppers THEN LOWERCASE[CHOOSE i \in 1..26 : UPPERCASE[i] = c] ELSE c
\* str.lower()
\* the sequence that a function with domain 1..n is
AsSeq(f) == SubSeq(f, 1, Len(f))
Lower(s) == AsSeq([i \in DOMAIN s |-> LowerChar(s[i])])

\* str.strip(chars); str.strip() is Strip(s, Whitespace)
Strip(s, cs) ==
    LET keep == {i \in DOMAIN s : s[i] \notin cs}
    IN  IF keep = {} THEN <<>>
        ELSE SubSeq(s, CHOOSE i \in keep : \A j \in keep : i <= j,
                       CHOOSE i \in keep : \A j \in keep : i >= j)

\* s.replace(c, "")
Remove(s, c) == SelectSeq(s, LAMBDA x : x # c)
\* s.count(c)
Count(s, c) == Len(SelectSeq(s, LAMBDA x : x = c))
\* needle in hay
Contains(hay, needle) ==
    \E i \in 1..(Len(hay) - Len(needle) + 1) : SubSeq(hay, i, i + Len(needle) - 1) = needle
\* sep.join(ss)
RECURSIVE Join(_, _)
Join(ss, sep) ==
    IF ss = <<>> THEN <<>>
    ELSE IF Len(ss) = 1 THEN ss[1] ELSE ss[1] \o sep \o Join(Tail(ss), sep)

(***************************************************************************)
(* Regular expressions (module re): pattern trees and a backtracking        *)
(* matcher.  Run(p, txt, m) is the sequence of ways p can match txt from    *)
(* match state m, in the order re tries them; re takes the first.           *)
(***************************************************************************)
In(S) == [t |-> "in", s |-> S]                    \* [...]
NotIn(S) == [t |-> "notin", s |-> S]              \* [^...]
Dot == NotIn({"\n"})                               \* .
Ch(c) == In({c})
Lit(s) == [t |-> "lit", s |-> s]                  \* a literal string
Cat(ps) == [t |-> "cat", ps |-> ps]               \* p1 p2 ...
Alt(ps) == [t |-> "alt", ps |-> ps]               \* p1|p2|...
Rep(p, lo, hi) == [t |-> "rep", p |-> p, lo |-> lo, hi |-> hi, lazy |-> FALSE]
Inf == -1
Star(p) == Rep(p, 0, Inf)                          \* p*
Plus(p) == Rep(p, 1, Inf)                          \* p+
Opt(p) == Rep(p, 0, 1)                             \* p?
LazyPlus(p) == [t |-> "rep", p |-> p, lo |-> 1, hi |-> Inf, lazy |-> TRUE]   \* p+?
Grp(n, p) == [t |-> "grp", n |-> n, p |-> p]      \* capturing group n
Bol(multi) == [t |-> "bol", multi |-> multi]      \* ^ (multi: re.M)
Eol(multi) == [t |-> "eol", multi |-> multi]      \* $
WordB == [t |-> "wb"]                              \* \b

StartAt(i) == [pos |-> i, g |-> <<<<0, 0>>, <<0, 0>>>>]

IsWordAt(txt, i) == i >= 1 /\ i <= Len(txt) /\ txt[i] \in WordChars
ClassHas(p, c) == IF p.t = "in" THEN c \in p.s ELSE c \notin p.s

\* the concatenation of a sequence of sequences
RECURSIVE Flatten(_)
Flatten(ss) ==
    IF Len(ss) = 0 THEN <<>>
    ELSE IF Len(ss) = 1 THEN ss[1]
    ELSE LET h == Len(ss) \div 2
         IN  Flatten(SubSeq(ss, 1, h)) \o Flatten(SubSeq(ss, h + 1, Len(ss)))

\* a repeated character class: every admissible run length, longest first when greedy
RunEnd(c, txt, from) ==
    CHOOSE e \in from..(Len(txt) + 1) :
        /\ e = Len(txt) + 1 \/ ~ClassHas(c, txt[e])
        /\ \A j \in from..(e - 1) : ClassHas(c, txt[j])
RunLengths(p, m, n) ==
    IF n < p.lo THEN <<>>
    ELSE AsSeq([k \in 1..(n - p.lo + 1) |->
            [m EXCEPT !.pos = IF p.lazy THEN m.pos + p.lo + (k - 1) ELSE m.pos + n - (k - 1)]])
RunClassRep(p, txt, m) ==
    LET avail == RunEnd(p.p, txt, m.pos) - m.pos
    IN  RunLengths(p, m, IF p.hi # Inf /\ avail > p.hi THEN p.hi ELSE avail)

\* the matches r of a group's body, with group n recorded as starting at position from
SetGroup(r, n, from) == AsSeq([k \in DOMAIN r |-> [r[k] EXCEPT !.g[n] = <<from, r[k].pos>>]])

RECURSIVE Run(_, _, _)
RECURSIVE RunCat(_, _, _, _)
RECURSIVE RunAlt(_, _, _, _)
RECURSIVE RunRep(_, _, _, _)
RECURSIVE RunRepAll(_, _, _, _)

\* p run from each state of ms, results kept in order
RunAll(p, txt, ms) == Flatten(AsSeq([k \in DOMAIN ms |-> Run(p, txt, ms[k])]))

Run(p, txt, m) ==
    CASE p.t \in {"in", "notin"} ->
            IF m.pos <= Len(txt) /\ ClassHas(p, txt[m.pos])
            THEN <<[m EXCEPT !.pos = @ + 1]>> ELSE <<>>
      [] p.t = "lit" ->
            IF m.pos + Len(p.s) - 1 <= Len(txt) /\ SubSeq(txt, m.pos, m.pos + Len(p.s) - 1) = p.s
            THEN <<[m EXCEPT !.pos = @ + Len(p.s)]>> ELSE <<>>
      [] p.t = "bol" ->
            IF m.pos = 1 \/ (p.multi /\ txt[m.pos - 1] = "\n") THEN <<m>> ELSE <<>>
      [] p.t = "eol" ->
            IF \/ m.pos = Len(txt) + 1
               \/ p.multi /\ txt[m.pos] = "\n"
               \/ ~p.multi /\ m.pos = Len(txt) /\ txt[m.pos] = "\n"
            THEN <<m>> ELSE <<>>
      [] p.t = "wb" ->
            IF IsWordAt(txt, m.pos - 1) # IsWordAt(txt, m.pos) THEN <<m>> ELSE <<>>
      [] p.t = "cat" -> RunCat(p.ps, 1, txt, <<m>>)
      [] p.t = "alt" -> RunAlt(p.ps, 1, txt, m)
      [] p.t = "rep" ->
            IF p.p.t \in {"in", "notin"} THEN RunClassRep(p, txt, m) ELSE RunRep(p, 0, txt, m)
      [] p.t = "grp" -> SetGroup(Run(p.p, txt, m), p.n, m.pos)

\* the parts ps[k..] of a concatenation run one after the other from the states ms
RunCat(ps, k, txt, ms) ==
    IF ms = <<>> \/ k > Len(ps) THEN ms ELSE RunCat(ps, k + 1, txt, RunAll(ps[k], txt, ms))

RunAlt(ps, k, txt, m) ==
    IF k > Len(ps) THEN <<>> ELSE Run(ps[k], txt, m) \o RunAlt(ps, k + 1, txt, m)

\* n iterations of p.p done; greedy tries another iteration first, lazy tries to stop first
RunRep(p, n, txt, m) ==
    LET more == IF p.hi = Inf \/ n < p.hi THEN RunRepAll(p, n + 1, txt, Run(p.p, txt, m)) ELSE <<>>
        stop == IF n >= p.lo THEN <<m>> ELSE <<>>
    IN  IF p.lazy THEN stop \o more ELSE more \o stop
RunRepAll(p, n, txt, ms) == Flatten(AsSeq([k \in DOMAIN ms |-> RunRep(p, n, txt, ms[k])]))

\* the least element of a non-empty set of numbers
SetMin(S) == CHOOSE x \in S : \A y \in S : x <= y
SetMax(S) == CHOOSE x \in S : \A y \in S : x >= y

\* re.finditer / re.findall: leftmost non-overlapping matches, scanning from position i.
RECURSIVE FindIter(_, _, _)
FindIter(p, txt, i) ==
    LET starts == {j \in i..(Len(txt) + 1) : Run(p, txt, StartAt(j)) # <<>>}
        m == Head(Run(p, txt, StartAt(SetMin(starts))))
    IN  IF starts = {} THEN <<>>
        ELSE <<[start |-> SetMin(starts), end |-> m.pos, g |-> m.g]>>
             \o FindIter(p, txt, IF m.pos = SetMin(starts) THEN SetMin(starts) + 1 ELSE m.pos)

\* the text of a match, and of its group n
MatchText(txt, m) == SubSeq(txt, m.start, m.end - 1)
Group(txt, m, n) == SubSeq(txt, m.g[n][1], m.g[n][2] - 1)
\* re.findall for a pattern without groups
Texts(txt, ms) == AsSeq([k \in DOMAIN ms |-> MatchText(txt, ms[k])])
FindAll(p, txt) == Texts(txt, FindIter(p, txt, 1))
\* re.search
Search(p, txt) == FindIter(p, txt, 1) # <<>>

\* re.sub(p, rep, txt) for a replacement without group references: the text between
\* the matches ms, with rep in place of each match
SubWith(ms, rep, txt) ==
    Flatten(AsSeq([k \in 1..(Len(ms) + 1) |->
        IF k <= Len(ms)
        THEN SubSeq(txt, IF k = 1 THEN 1 ELSE ms[k - 1].end, ms[k].start - 1) \o rep
        ELSE SubSeq(txt, IF k = 1 THEN 1 ELSE ms[k - 1].end, Len(txt))]))
Sub(p, rep, txt) == SubWith(FindIter(p, txt, 1), rep, txt)

(***************************************************************************)
(* Python numbers.  A Python int is unbounded, so it is kept as a sign and  *)
(* its decimal digits: [neg |-> BOOLEAN, mag |-> <<digits, most significant *)
(* first, no leading zero>>].  float() is IEEE binary64: an integer of more *)
(* than MantissaBits significant bits is rounded to the nearest             *)
(* representable value, ties to even.                                       *)
(***************************************************************************)
MantissaBits == 53
MaxExponentBits == 1024

DIGITCHARS == <<"0","1","2","3","4","5","6","7","8","9">>
DigitVal(c) == (CHOOSE i \in 1..10 : DIGITCHARS[i] = c) - 1
DigitsOf(s) == AsSeq([i \in DOMAIN s |-> DigitVal(s[i])])

\* digits without leading zeros; zero is <<0>>
Norm(d) ==
    LET nz == {i \in DOMAIN d : d[i] # 0}
    IN  IF nz = {} THEN <<0>> ELSE SubSeq(d, CHOOSE i \in nz : \A j \in nz : i <= j, Len(d))
PyInt(neg, d) == LET n == Norm(d) IN [neg |-> neg /\ n # <<0>>, mag |-> n]
IsPyInt(v) == /\ DOMAIN v = {"neg", "mag"}
              /\ v.neg \in BOOLEAN
              /\ Len(v.mag) >= 1
              /\ \A i \in DOMAIN v.mag : v.mag[i] \in 0..9
              /\ (Len(v.mag) > 1 => v.mag[1] # 0)
              /\ (v.mag = <<0>> => ~v.neg)

\* Arithmetic on long numbers: a number is its digits in some base, most significant
\* first.  DivMod(d, base, q) is <<d \div q, d % q>> for a small divisor q.
RECURSIVE DivModFrom(_, _, _, _)
DivModFrom(d, base, q, r) ==
    IF d = <<>> THEN <<<<>>, r>>
    ELSE LET v == base * r + Head(d)
             rest == DivModFrom(Tail(d), base, q, v % q)
         IN  <<<<v \div q>> \o rest[1], rest[2]>>
DivMod(d, base, q) == DivModFrom(d, base, q, 0)
\* the digits of d in base `to`, d given in base `from`
RECURSIVE Rebase(_, _, _)
Rebase(d, from, to) ==
    IF Norm(d) = <<0>> THEN <<>>
    ELSE LET qr == DivMod(Norm(d), from, to) IN Rebase(qr[1], from, to) \o <<qr[2]>>

LimbBits == 15
LimbBase == 2 ^ LimbBits
BitsOfLimb(x, w) == AsSeq([k \in 1..w |-> (x \div (2 ^ (w - k))) % 2])
RECURSIVE LimbOfBits(_)
LimbOfBits(b) == IF b = <<>> THEN 0 ELSE 2 * LimbOfBits(SubSeq(b, 1, Len(b) - 1)) + b[Len(b)]
\* the bits of a number given by its limbs, most significant first (none for zero)
BitLen(x) == CHOOSE w \in 1..LimbBits : x < 2 ^ w /\ x >= 2 ^ (w - 1)
BitsOfLimbs(limbs) ==
    IF limbs = <<>> THEN <<>>
    ELSE Flatten(AsSeq([k \in DOMAIN limbs |->
                    BitsOfLimb(limbs[k], IF k = 1 THEN BitLen(limbs[1]) ELSE LimbBits)]))
\* binary digits of a decimal number
ToBits(d) == BitsOfLimbs(Rebase(d, 10, LimbBase))
\* the limbs of binary digits whose number is a multiple of LimbBits
LimbsOfBits(b) ==
    AsSeq([k \in 1..(Len(b) \div LimbBits) |->
        LimbOfBits(SubSeq(b, (k - 1) * LimbBits + 1, k * LimbBits))])
\* the decimal number of binary digits
FromBits(bits) ==
    Norm(Rebase(LimbsOfBits([k \in 1..((LimbBits - (Len(bits) % LimbBits)) % LimbBits) |-> 0] \o bits),
                LimbBase, 10))
\* bits + 1
BinInc(b) ==
    LET zeros == {i \in DOMAIN b : b[i] = 0}
        z == CHOOSE i \in zeros : \A j \in zeros : i >= j
    IN  IF zeros = {} THEN <<1>> \o [k \in 1..Len(b) |-> 0]
        ELSE SubSeq(b, 1, z - 1) \o <<1>> \o [k \in 1..(Len(b) - z) |-> 0]

\* The binary64 value nearest to the integer with these bits (plus a non-zero fraction
\* below one when sticky), as bits, for an integer of MantissaBits bits or more.
RoundToDouble(bits, sticky) ==
    IF Len(bits) <= MantissaBits THEN bits
    ELSE LET M == SubSeq(bits, 1, MantissaBits)
             R == SubSeq(bits, MantissaBits + 1, Len(bits))
             up == /\ R[1] = 1
                   /\ \/ \E k \in 2..Len(R) : R[k] = 1
                      \/ sticky
                      \/ M[MantissaBits] = 1
         IN  (IF up THEN BinInc(M) ELSE M) \o [k \in 1..Len(R) |-> 0]

\* the grammar float() accepts among strings of digits, '.' and '-'
FloatSyntaxOk(s) ==
    LET body == IF s # <<>> /\ Head(s) = "-" THEN Tail(s) ELSE s
    IN  /\ \A i \in DOMAIN body : body[i] \in Digits \cup {"."}
        /\ Count(body, ".") <= 1
        /\ \E i \in DOMAIN body : body[i] \in Digits

\* decimal digits + 1
DecInc(d) ==
    LET low == {i \in DOMAIN d : d[i] < 9}
        z == CHOOSE i \in low : \A j \in low : i >= j
    IN  IF low = {} THEN <<1>> \o [k \in 1..Len(d) |-> 0]
        ELSE SubSeq(d, 1, z - 1) \o <<d[z] + 1>> \o [k \in 1..(Len(d) - z) |-> 0]

\* round() of the float with integer part ip (bits bitsI) and fraction digits fp.
\* round() is round-half-to-even.  At 2^52 and above the float is an integer already;
\* below, the value is rounded from its decimal digits, which is what binary64 gives
\* for up to 15 significant digits.
FracAbove(fp) == fp # <<>> /\ (fp[1] > 5 \/ (fp[1] = 5 /\ \E i \in 2..Len(fp) : fp[i] # 0))
FracTie(fp) == fp # <<>> /\ fp[1] = 5 /\ \A i \in 2..Len(fp) : fp[i] = 0
FracNonZero(fp) == \E i \in DOMAIN fp : fp[i] # 0
RoundedBits(bitsI, fp) ==
    IF Len(bitsI) = MantissaBits
    THEN (IF FracAbove(fp) \/ (FracTie(fp) /\ bitsI[MantissaBits] = 1) THEN BinInc(bitsI) ELSE bitsI)
    ELSE RoundToDouble(bitsI, FracNonZero(fp))
IntOfBits(neg, rb) == IF Len(rb) > MaxExponentBits THEN None ELSE PyInt(neg, FromBits(rb))
RoundParts(neg, ip, fp, bitsI) ==
    IF Len(bitsI) >= MantissaBits THEN IntOfBits(neg, RoundedBits(bitsI, fp))
    ELSE PyInt(neg, IF FracAbove(fp) \/ (FracTie(fp) /\ ip[Len(ip)] % 2 = 1) THEN DecInc(ip) ELSE ip)
\* the parts of a float literal: integer digits, fraction digits
DotAt(body) == IF "." \in Range(body) THEN CHOOSE i \in DOMAIN body : body[i] = "." ELSE Len(body) + 1
IntDigits(body) == Norm(DigitsOf(SubSeq(body, 1, DotAt(body) - 1)))
FracDigits(body) == DigitsOf(SubSeq(body, DotAt(body) + 1, Len(body)))
RoundBody(neg, body) == RoundParts(neg, IntDigits(body), FracDigits(body), ToBits(IntDigits(body)))
\* int(round(float(s))) for s of digits, '.' and '-'; None when float() or round() raises
PyRoundFloat(s) ==
    IF ~FloatSyntaxOk(s) THEN None
    ELSE RoundBody(Head(s) = "-", IF Head(s) = "-" THEN Tail(s) ELSE s)

(***************************************************************************)
(* parse_balance_sheet.py: num_clean                                        *)
(***************************************************************************)
\* line 16: re.sub(r"[^0-9,.\-]", "", s)
NumKeep == Digits \cup {",", ".", "-"}

\* lines 18-21
DropCommas(s) ==
    IF "," \in Range(s) /\ "." \in Range(s) THEN Remove(s, ",")
    ELSE IF "," \in Range(s) /\ "." \notin Range(s) THEN Remove(s, ",")
    ELSE s
\* lines 23-24
DropPeriods(s) == IF Count(s, ".") > 1 THEN Remove(s, ".") ELSE s

num_clean(s) ==
    IF s = <<>> THEN None
    ELSE PyRoundFloat(DropPeriods(DropCommas(Sub(NotIn(NumKeep), <<>>, Strip(s, Whitespace)))))

(***************************************************************************)
(* parse_balance_sheet.py: clean_label                                      *)
(***************************************************************************)
\* _CANON_MAP: the captions in declaration order (a dict iterates in insertion order);
\* every caption maps to itself
CANON_KEYS == <<
    <<"p","r","o","p","e","r","t","y",","," ","p","l","a","n","t"," ","a","n","d"," ","e","q","u","i","p","m","e","n","t">>,
    <<"i","n","t","a","n","g","i","b","l","e"," ","a","s","s","e","t","s">>,
    <<"r","i","g","h","t","-","o","f","-","u","s","e"," ","(","r","o","u",")"," ","a","s","s","e","t">>,
    <<"a","d","v","a","n","c","e","s",","," ","d","e","p","o","s","i","t","s"," ","a","n","d"," ","p","r","e","p","a","y","m","e","n","t","s">>,
    <<"n","o","n","-","c","u","r","r","e","n","t"," ","a","s","s","e","t","s">>,
    <<"i","n","v","e","n","t","o","r","i","e","s">>,
    <<"t","r","a","d","e"," ","a","n","d"," ","o","t","h","e","r"," ","r","e","c","e","i","v","a","b","l","e","s">>,
    <<"c","a","s","h"," ","a","n","d"," ","c","a","s","h"," ","e","q","u","i","v","a","l","e","n","t","s">>,
    <<"c","u","r","r","e","n","t"," ","a","s","s","e","t","s">>,
    <<"t","o","t","a","l"," ","a","s","s","e","t","s">>,
    <<"s","h","a","r","e"," ","c","a","p","i","t","a","l">>,
    <<"o","t","h","e","r"," ","c","o","m","p","o","n","e","n","t"," ","o","f"," ","e","q","u","i","t","y">>,
    <<"g","e","n","e","r","a","l"," ","r","e","s","e","r","v","e","/","r","e","t","a","i","n","e","d"," ","e","a","r","n","i","n","g","s">>,
    <<"e","q","u","i","t","y"," ","a","t","t","r","i","b","u","t","a","b","l","e"," ","t","o"," ","o","w","n","e","r","s"," ","o","f"," ","t","h","e"," ","c","o","m","p","a","n","y">>,
    <<"n","o","n","-","c","o","n","t","r","o","l","l","i","n","g"," ","i","n","t","e","r","e","s","t">>,
    <<"t","o","t","a","l"," ","e","q","u","i","t","y">>,
    <<"e","m","p","l","o","y","e","e"," ","b","e","n","e","f","i","t","s","-","n","o","n"," ","c","u","r","r","e","n","t"," ","p","o","r","t","i","o","n">>,
    <<"d","e","f","e","r","r","e","d"," ","t","a","x"," ","l","i","a","b","i","l","i","t","i","e","s">>,
    <<"l","e","a","s","e"," ","l","i","a","b","i","l","i","t","y","-","n","o","n"," ","c","u","r","r","e","n","t"," ","p","o","r","t","i","o","n">>,
    <<"o","t","h","e","r"," ","n","o","n","-","c","u","r","r","e","n","t"," ","l","i","a","b","i","l","i","t","i","e","s">>,
    <<"n","o","n","-","c","u","r","r","e","n","t"," ","l","i","a","b","i","l","i","t","i","e","s">>,
    <<"l","e","a","s","e"," ","l","i","a","b","i","l","i","t","i","e","s","-","c","u","r","r","e","n","t"," ","p","o","r","t","i","o","n">>,
    <<"e","m","p","l","o","y","e","e"," ","b","e","n","e","f","i","t","s","-","c","u","r","r","e","n","t"," ","p","o","r","t","i","o","n">>,
    <<"t","r","a","d","e"," ","a","n","d"," ","o","t","h","e","r"," ","p","a","y","a","b","l","e","s">>,
    <<"p","r","o","v","i","s","i","o","n"," ","f","o","r"," ","e","x","p","e","n","s","e","s">>,
    <<"c","u","r","r","e","n","t"," ","t","a","x"," ","l","i","a","b","i","l","i","t","i","e","s">>,
    <<"u","n","c","l","a","i","m","e","d"," ","d","i","v","i","d","e","n","d">>,
    <<"c","u","r","r","e","n","t"," ","l","i","a","b","i","l","i","t","i","e","s">>,
    <<"t","o","t","a","l"," ","l","i","a","b","i","l","i","t","i","e","s">>,
    <<"t","o","t","a","l"," ","e","q","u","i","t","y"," ","a","n","d"," ","l","i","a","b","i","l","i","t","i","e","s">>,
    <<"n","e","t"," ","a","s","s","e","t","s"," ","v","a","l","u","e"," ","(","n","a","v",")"," ","p","e","r"," ","s","h","a","r","e">>
>>
CANON_MAP == [i \in DOMAIN CANON_KEYS |-> [key |-> CANON_KEYS[i], val |-> CANON_KEYS[i]]]

\* _FIXES: the OCR corrections, in order
SepWsHyphen == Star(In(Whitespace \cup {"-"}))      \* [\s\-]*
FIXES == <<
    \* \bequny\b
    [pat |-> Cat(<<WordB, Lit(<<"e","q","u","n","y">>), WordB>>),
     rep |-> <<"e","q","u","i","t","y">>],
    \* \bbabies\b
    [pat |-> Cat(<<WordB, Lit(<<"b","a","b","i","e","s">>), WordB>>),
     rep |-> <<"l","i","a","b","i","l","i","t","i","e","s">>],
    \* \babies\b
    [pat |-> Cat(<<WordB, Lit(<<"a","b","i","e","s">>), WordB>>),
     rep |-> <<"l","i","a","b","i","l","i","t","i","e","s">>],
    \* \babities\b
    [pat |-> Cat(<<WordB, Lit(<<"a","b","i","t","i","e","s">>), WordB>>),
     rep |-> <<"l","i","a","b","i","l","i","t","i","e","s">>],
    \* \bbenetis\b
    [pat |-> Cat(<<WordB, Lit(<<"b","e","n","e","t","i","s">>), WordB>>),
     rep |-> <<"b","e","n","e","f","i","t","s">>],
    \* \bcavent\b
    [pat |-> Cat(<<WordB, Lit(<<"c","a","v","e","n","t">>), WordB>>),
     rep |-> <<"c","u","r","r","e","n","t">>],
    \* \bnon[\s\-]*cunent\b
    [pat |-> Cat(<<WordB, Lit(<<"n","o","n">>), SepWsHyphen, Lit(<<"c","u","n","e","n","t">>), WordB>>),
     rep |-> <<"n","o","n"," ","c","u","r","r","e","n","t">>],
    \* \bnon[\s\-]*conent\b
    [pat |-> Cat(<<WordB, Lit(<<"n","o","n">>), SepWsHyphen, Lit(<<"c","o","n","e","n","t">>), WordB>>),
     rep |-> <<"n","o","n"," ","c","u","r","r","e","n","t">>],
    \* \bprepaymens\b
    [pat |-> Cat(<<WordB, Lit(<<"p","r","e","p","a","y","m","e","n","s">>), WordB>>),
     rep |-> <<"p","r","e","p","a","y","m","e","n","t","s">>],
    \* \bdeposis\b
    [pat |-> Cat(<<WordB, Lit(<<"d","e","p","o","s","i","s">>), WordB>>),
     rep |-> <<"d","e","p","o","s","i","t","s">>],
    \* \btra[ \-]*de\b
    [pat |-> Cat(<<WordB, Lit(<<"t","r","a">>), Star(In({" ", "-"})), Lit(<<"d","e">>), WordB>>),
     rep |-> <<"t","r","a","d","e">>],
    \* \bgenera reserve ?/ ?tetained ening\b
    [pat |-> Cat(<<WordB, Lit(<<"g","e","n","e","r","a"," ","r","e","s","e","r","v","e">>), Opt(Ch(" ")), Ch("/"), Opt(Ch(" ")), Lit(<<"t","e","t","a","i","n","e","d"," ","e","n","i","n","g">>), WordB>>),
     rep |-> <<"g","e","n","e","r","a","l"," ","r","e","s","e","r","v","e","/","r","e","t","a","i","n","e","d"," ","e","a","r","n","i","n","g","s">>],
    \* \brou ?asset\b
    [pat |-> Cat(<<WordB, Lit(<<"r","o","u">>), Opt(Ch(" ")), Lit(<<"a","s","s","e","t">>), WordB>>),
     rep |-> <<"r","i","g","h","t","-","o","f","-","u","s","e"," ","(","r","o","u",")"," ","a","s","s","e","t">>]
>>

\* line 84, 88: the characters of strip(" :\t-—_.")
LabelStrip == {" ", ":", "\t", "-", EMDASH, "_", "."}

\* lines 86-87: the fixes from the k-th on applied in order, each to the result of the
\* one before (no fix matches in the empty text)
RECURSIVE ApplyFixes(_, _)
ApplyFixes(t, k) ==
    IF t = <<>> \/ k > Len(FIXES) THEN t ELSE ApplyFixes(Sub(FIXES[k].pat, FIXES[k].rep, t), k + 1)

\* lines 89-92: the value of the first key, in declaration order, contained in t
CanonLookup(t) ==
    LET hits == {i \in DOMAIN CANON_MAP : Contains(t, CANON_MAP[i].key)}
    IN  IF hits = {} THEN t
        ELSE CANON_MAP[CHOOSE i \in hits : \A j \in hits : i <= j].val

clean_label(text) ==
    LET t1 == Strip(Lower(text), LabelStrip)
        t2 == Sub(Plus(In(Whitespace)), <<" ">>, t1)
        t3 == ApplyFixes(t2, 1)
        t4 == Strip(t3, LabelStrip)
    IN  CanonLookup(t4)

(***************************************************************************)
(* parse_balance_sheet.py: extract_two_years_from_line                      *)
(***************************************************************************)
\* line 99: ^\s*(assets|equity|liabilities|notes|net assets value) with re.I; the
\* alternatives are lower-case letters, so re.I is matching the lower-cased text
HeaderPat ==
    Cat(<<Bol(FALSE), Star(In(Whitespace)),
          Alt(<<Lit(<<"a","s","s","e","t","s">>),
                Lit(<<"e","q","u","i","t","y">>),
                Lit(<<"l","i","a","b","i","l","i","t","i","e","s">>),
                Lit(<<"n","o","t","e","s">>),
                Lit(<<"n","e","t"," ","a","s","s","e","t","s"," ","v","a","l","u","e">>)>>)>>)
IsHeader(s) == Search(HeaderPat, Lower(s))

\* line 102: [-+]?\d[\d,.\-]*
NumTokPat == Cat(<<Opt(In({"-", "+"})), In(Digits), Star(In(Digits \cup {",", ".", "-"}))>>)
\* lines 109-110: [-+]?\d[\d,.\-]*\s*$
TrailNumPat ==
    Cat(<<Opt(In({"-", "+"})), In(Digits), Star(In(Digits \cup {",", ".", "-"})),
          Star(In(Whitespace)), Eol(FALSE)>>)

\* lines 109-110: the label remainder of the stripped line s
LabelPart(s) == Sub(TrailNumPat, <<>>, Sub(TrailNumPat, <<>>, s))

\* lines 113-117 with the test of line 115 weakened to "either value is None"
MakeRowBothNeeded(v2022, v2021, label) ==
    IF label = <<>> THEN None
    ELSE IF v2022 = None \/ v2021 = None THEN None
    ELSE [v2022 |-> v2022, v2021 |-> v2021, label |-> label]
\* lines 113-117: the result for the two cleaned values and the label
MakeRow(v2022, v2021, label) ==
    IF label = <<>> THEN None
    ELSE IF v2022 = None /\ v2021 = None THEN None
    ELSE [v2022 |-> v2022, v2021 |-> v2021, label |-> label]
\* lines 103-117, given the numeric tokens of the stripped line s
RowFromNums(s, nums) ==
    IF Len(nums) < 2 THEN None
    ELSE MakeRow(num_clean(nums[Len(nums) - 1]), num_clean(nums[Len(nums)]),
                 clean_label(LabelPart(s)))
\* lines 97-117, given the stripped line
ExtractStripped(s) ==
    IF s = <<>> THEN None
    ELSE IF IsHeader(s) THEN None
    ELSE RowFromNums(s, FindAll(NumTokPat, s))
\* the result is None or the tuple (v2022, v2021, label)
extract_two_years_from_line(line) == ExtractStripped(Strip(line, Whitespace))

\* str.splitlines() for text whose only line boundary character is "\n"
SplitLines(txt) ==
    LET nl == {i \in DOMAIN txt : txt[i] = "\n"}
        ends == nl \cup (IF txt # <<>> /\ txt[Len(txt)] # "\n" THEN {Len(txt) + 1} ELSE {})
        LineStart(e) == IF \E i \in nl : i < e
                        THEN (CHOOSE i \in nl : i < e /\ \A j \in nl : j < e => j <= i) + 1
                        ELSE 1
        Nth(k) == CHOOSE e \in ends : Cardinality({x \in ends : x <= e}) = k
    IN  AsSeq([k \in 1..Cardinality(ends) |-> SubSeq(txt, LineStart(Nth(k)), Nth(k) - 1)])

(***************************************************************************)
(* main.py: ocr_image, parse_fields                                         *)
(***************************************************************************)
\* line 80: '\n'.join(line.strip() for line in text.splitlines() if line.strip())
ocr_image(text) ==
    LET ls == SplitLines(text)
        stripped == AsSeq([k \in DOMAIN ls |-> Strip(ls[k], Whitespace)])
    IN  Join(SelectSeq(stripped, LAMBDA l : l # <<>>), <<"\n">>)

Letters == Lowers \cup Uppers
\* line 86: ^\s*([A-Za-z0-9 _\-/\.]+)\s*[:=]\s*(.+?)\s*$ with re.M
KvLabelChars == Letters \cup Digits \cup {" ", "_", "-", "/", "."}
kv_pattern ==
    Cat(<<Bol(TRUE), Star(In(Whitespace)), Grp(1, Plus(In(KvLabelChars))),
          Star(In(Whitespace)), In({":", "="}), Star(In(Whitespace)),
          Grp(2, LazyPlus(Dot)), Star(In(Whitespace)), Eol(TRUE)>>)

\* line 90: the length a key is cut to
MaxKeyLen == 64

\* lines 88-90: the key of a matched label
ReplaceChar(s, from, to) == AsSeq([i \in DOMAIN s |-> IF s[i] = from THEN to ELSE s[i]])
KeyChars == Lowers \cup Digits \cup {"_"}
\* s[:n]
Cut(s, n) == SubSeq(s, 1, IF Len(s) < n THEN Len(s) ELSE n)
Underscored(k) ==
    ReplaceChar(ReplaceChar(ReplaceChar(ReplaceChar(k, " ", "_"), "-", "_"), "/", "_"), ".", "_")
\* lines 88-90 without the [:64] of line 90
KeyOfUncut(label) ==
    Sub(Plus(NotIn(KeyChars)), <<>>, Underscored(Lower(Strip(label, Whitespace))))
KeyOf(label) ==
    Cut(Sub(Plus(NotIn(KeyChars)), <<>>, Underscored(Lower(Strip(label, Whitespace)))), MaxKeyLen)
\* line 91: the value of a match
ValOf(value) == Strip(value, Whitespace)

\* a dict with d[key] = val set
DictSet(d, key, val) == [k \in DOMAIN d \cup {key} |-> IF k = key THEN val ELSE d[k]]
\* a str value and a list value of the field map
StrVal(s) == [str |-> s]
ListVal(l) == [list |-> l]

\* lines 92-93: one match of the loop applied to the map
StoreKey(f, key, val) == IF key # <<>> THEN DictSet(f, key, StrVal(val)) ELSE f
KvStore(f, txt, m) == StoreKey(f, KeyOf(Group(txt, m, 1)), ValOf(Group(txt, m, 2)))

\* list(dict.fromkeys(l)): first occurrences, in order
Unwrap(d) == AsSeq([i \in DOMAIN d |-> d[i][1]])
DedupList(l) ==
    Unwrap(SelectSeq([i \in DOMAIN l |-> IF \E j \in 1..(i - 1) : l[j] = l[i] THEN <<>> ELSE <<l[i]>>],
                     LAMBDA x : x # <<>>))
\* lines 96-97, 101-102: a non-empty list stored under key
StoreList(f, key, l) == IF l # <<>> THEN DictSet(f, key, ListVal(DedupList(l))) ELSE f

\* line 95: [A-Za-z0-9._%+\-]+@[A-Za-z0-9.\-]+\.[A-Za-z]{2,}
email_pattern ==
    Cat(<<Plus(In(Letters \cup Digits \cup {".", "_", "%", "+", "-"})), Ch("@"),
          Plus(In(Letters \cup Digits \cup {".", "-"})), Ch("."), Rep(In(Letters), 2, Inf)>>)
\* line 99: (?:\+?\d{1,3}[\s\-\.]?)?(?:\(?\d{2,4}\)?[\s\-\.]?)?\d{3,4}[\s\-\.]?\d{4}
PhoneSep == Opt(In(Whitespace \cup {"-", "."}))
phone_pattern ==
    Cat(<<Opt(Cat(<<Opt(Ch("+")), Rep(In(Digits), 1, 3), PhoneSep>>)),
          Opt(Cat(<<Opt(Ch("(")), Rep(In(Digits), 2, 4), Opt(Ch(")")), PhoneSep>>)),
          Rep(In(Digits), 3, 4), PhoneSep, Rep(In(Digits), 4, 4)>>)
\* line 100: the digit count a phone candidate needs
MinPhoneDigits == 8

EMAILS == <<"e","m","a","i","l","s">>
PHONES == <<"p","h","o","n","e","s">>
\* lines 95-97
EmailsStore(f, txt) == StoreList(f, EMAILS, FindAll(email_pattern, txt))
\* line 100
StripAll(l) == AsSeq([i \in DOMAIN l |-> Strip(l[i], Whitespace)])
CleanPhones(txt) ==
    StripAll(SelectSeq(FindAll(phone_pattern, txt),
                       LAMBDA p : Len(Sub(NotIn(Digits), <<>>, p)) >= MinPhoneDigits))
\* lines 99-102
PhonesStore(f, txt) == StoreList(f, PHONES, CleanPhones(txt))

\* the loop of lines 87-93 over the matches ms[k..]
RECURSIVE KvLoop(_, _, _, _)
KvLoop(f, txt, ms, k) == IF k > Len(ms) THEN f ELSE KvLoop(KvStore(f, txt, ms[k]), txt, ms, k + 1)
\* parse_fields as a function of the text
parse_fields(txt) == PhonesStore(EmailsStore(KvLoop(<<>>, txt, FindIter(kv_pattern, txt, 1), 1), txt), txt)

(***************************************************************************)
(* The ocr_documents table and the statements run on it                     *)
(***************************************************************************)
\* a JSONB column value: SQL NULL, or an object given by its top-level keys
Null == [null |-> TRUE]
Obj(f) == [obj |-> f]
EmptyMap == [k \in {} |-> Null]
\* parse_balance_sheet.py line 161: COALESCE(fields, '{}'::jsonb)
Coalesce(j) == IF j = Null THEN EmptyMap ELSE j.obj
\* parse_balance_sheet.py line 161: jsonb || jsonb, the right operand's top-level keys win
Concat(a, b) == [k \in DOMAIN a \cup DOMAIN b |-> IF k \in DOMAIN b THEN b[k] ELSE a[k]]
\* the table with the UPDATE ... SET fields = COALESCE(fields, '{}') || patch WHERE id = id
\* applied: one statement, atomic in the store; no row matches an unknown id
UpdateMerge(tbl, id, patch) ==
    [i \in DOMAIN tbl |->
        IF i = id THEN [tbl[i] EXCEPT !.fields = Obj(Concat(Coalesce(@), patch))] ELSE tbl[i]]
\* the table with an UPDATE that sets fields to a value computed by the client
UpdateSet(tbl, id, value) ==
    [i \in DOMAIN tbl |-> IF i = id THEN [tbl[i] EXCEPT !.fields = value] ELSE tbl[i]]
\* parse_balance_sheet.py lines 145-155 with row_id None: the row of the greatest id, or None.
\* Ids are SERIAL: the table is the sequence of its rows by id.
fetch_latest_ocr_row(tbl) ==
    IF tbl = <<>> THEN None
    ELSE [id |-> Len(tbl), filename |-> tbl[Len(tbl)].filename,
          raw_text |-> tbl[Len(tbl)].raw_text, fields |-> tbl[Len(tbl)].fields]
\* parse_balance_sheet.py line 164: Json({"balance_sheet": balance_sheet})
BalanceSheetPatch(balance_sheet) == [k \in {"balance_sheet"} |-> balance_sheet]
\* main.py lines 107-116: the table with a row inserted
insert_document(tbl, filename, raw, flds) ==
    Append(tbl, [filename |-> filename, raw_text |-> raw, fields |-> flds])

(***************************************************************************)
(* The parts of the model that a specification leaves alone                 *)
(***************************************************************************)
NumIdle == numTok = <<>> /\ numOut = Pending
LblIdle == lblIn = <<>> /\ lblOut = Pending
RowIdle == raw_text = <<>> /\ lineNo = 0 /\ rows = <<>> /\ seen = {} /\ results = <<>>
PfIdle == pfText = <<>> /\ pfMatches = <<>> /\ pfIdx = 0 /\ fields = <<>> /\ pfPc = "idle"
DbIdle == /\ table = <<>> /\ bsPc = "idle" /\ bsRow = None /\ bsParsed = None /\ writes = 0
          /\ lastSet = <<>> /\ bsStale = FALSE
RunIdle == /\ pc = "idle" /\ argv = <<>> /\ input_paths = <<>> /\ idx = 0 /\ attempted = <<>>
           /\ saved = <<>> /\ exitStatus = None /\ storeUp = TRUE /\ storeFailedAt = {}

\* all sequences over S of length lo..hi
SeqsOf(S, lo, hi) == UNION {[1..n -> S] : n \in lo..hi}

(***************************************************************************)
(* num_clean applied to a token                                             *)
(***************************************************************************)
MaxTokenLen == 3
TokenAlphabet == {"1", "2", ",", ".", "-"}
SampleTokens == {
    <<"1",",","3","4","2",",","7","0","0">>,
    <<"1","5",",","7","7","3">>,
    <<"a","b","c">>,
    <<"3",".","9","0","0",".","0","7">>,
    <<"1",",","2","3","4",".","5","6","7",".","8","9","0">>,
    <<"-","2",",","5","0","0">>,
    <<"9",",","0","0","7",",","1","9","9",",","2","5","4",",","7","4","0",",","9","9","2">>,
    <<"9",",","0","0","7",",","1","9","9",",","2","5","4",",","7","4","0",",","9","9","3">>,
    <<"-","9",".","0","0","7",".","1","9","9",".","2","5","4",".","7","4","0",".","9","9","3">>,
    <<"1","2",".","5","0">>
}
Tokens == SeqsOf(TokenAlphabet, 0, MaxTokenLen) \cup SampleTokens

NumInit == numTok \in Tokens /\ numOut = Pending
NumClean ==
    /\ numOut = Pending
    /\ numOut' = num_clean(numTok)
    /\ UNCHANGED <<numTok, lblVars, rowVars, pfVars, dbVars, runVars>>

SpecNumInit == NumInit /\ LblIdle /\ RowIdle /\ PfIdle /\ DbIdle /\ RunIdle
SpecNumNext == NumClean
SpecNum == SpecNumInit /\ [][SpecNumNext]_vars

(***************************************************************************)
(* clean_label applied to a text fragment                                   *)
(***************************************************************************)
\* what may surround a caption in a line fragment
Decorations == {<<>>, <<" ">>, <<":">>, <<"x", " ">>}
SampleLabels == {
    <<"T","o","t","a","l"," ","E","q","u","n","y">>,
    <<"c","a","v","e","n","t"," ","t","a","x"," ","a","b","i","t","i","e","s">>,
    <<"R","O","U"," ","a","s","s","e","t">>,
    <<"G","o","o","d","w","i","l","l">>,
    <<".",".",".">>,
    <<>>
}
LabelInputs ==
    {pre \o CANON_KEYS[i] \o post : pre \in Decorations, post \in Decorations, i \in DOMAIN CANON_KEYS}
    \cup SampleLabels

LblInit == lblIn \in LabelInputs /\ lblOut = Pending
Normalize ==
    /\ lblOut = Pending
    /\ lblOut' = clean_label(lblIn)
    /\ UNCHANGED <<lblIn, numVars, rowVars, pfVars, dbVars, runVars>>

SpecLabelInit == LblInit /\ NumIdle /\ RowIdle /\ PfIdle /\ DbIdle /\ RunIdle
SpecLabelNext == Normalize
SpecLabel == SpecLabelInit /\ [][SpecLabelNext]_vars

(***************************************************************************)
(* parse_balance_sheet.py: parse_balance_sheet_text, one loop iteration per *)
(* step                                                                     *)
(***************************************************************************)
MaxLines == 2
LinePool == {
    <<"I","n","v","e","n","t","o","r","i","e","s"," "," ","1","5",",","7","7","3"," "," ","1","2",",","4","0","0">>,
    <<"i","n","v","e","n","t","o","r","i","e","s"," ","1"," ","2">>,
    <<"A","s","s","e","t","s"," ","1"," ","2">>,
    <<>>,
    <<"g","o","o","d","w","i","l","l"," ","1","-","2"," ","5">>,
    <<"g","o","o","d","w","i","l","l"," ","1","-","2"," ","3","-","4">>,
    <<"g","o","o","d","w","i","l","l"," ","1","0"," ","2","0"," ","x">>,
    <<"T","o","t","a","l"," ","e","q","u","i","t","y"," ","a","n","d"," ","l","i","a","b","i","l","i","t","i","e","s"," ","5"," ","6">>,
    <<"7"," ","8">>,
    <<"C","a","s","h"," ","5">>
}
RawTexts == {Join(ls, <<"\n">>) : ls \in SeqsOf(LinePool, 0, MaxLines)}

\* line 130: the row appended for a result
RowOf(res) == [label |-> res.label, y2022 |-> res.v2022, y2021 |-> res.v2021]
\* the loop body without the guard of lines 126-127: a repeated label is appended again
AddRowNoSeen(rs, sn, res) == IF res = None THEN rs ELSE Append(rs, RowOf(res))
\* lines 124-130: rows after the loop body has run on a result
AddRow(rs, sn, res) ==
    IF res = None THEN rs
    ELSE IF res.label \in sn THEN rs
    ELSE Append(rs, RowOf(res))
\* lines 124-129: seen after the loop body has run on a result
AddSeen(sn, res) == IF res = None THEN sn ELSE sn \cup {res.label}

\* lines 120-131 as a function of the text: the loop over lines[k..], then the result
RECURSIVE ParseLoop(_, _, _, _)
ParseLoop(lines, k, rs, sn) ==
    IF k > Len(lines) THEN rs
    ELSE ParseLoop(lines, k + 1, AddRow(rs, sn, extract_two_years_from_line(lines[k])),
                   AddSeen(sn, extract_two_years_from_line(lines[k])))
parse_balance_sheet_text(txt) ==
    [table_years |-> <<"2022", "2021">>, rows |-> ParseLoop(SplitLines(txt), 1, <<>>, {})]

RowInit == raw_text \in RawTexts /\ lineNo = 0 /\ rows = <<>> /\ seen = {} /\ results = <<>>
\* lines 122-130: the loop body on the next line of raw_text.splitlines()
ParseLine ==
    /\ lineNo < Len(SplitLines(raw_text))
    /\ results' = Append(results, extract_two_years_from_line(SplitLines(raw_text)[lineNo + 1]))
    /\ rows' = AddRow(rows, seen, results'[lineNo + 1])
    /\ seen' = AddSeen(seen, results'[lineNo + 1])
    /\ lineNo' = lineNo + 1
    /\ UNCHANGED <<raw_text, numVars, lblVars, pfVars, dbVars, runVars>>
\* line 131: the value returned once the loop is over
ParseDone == lineNo = Len(SplitLines(raw_text))
parse_result == [table_years |-> <<"2022", "2021">>, rows |-> rows]

SpecRowsInit == RowInit /\ NumIdle /\ LblIdle /\ PfIdle /\ DbIdle /\ RunIdle
SpecRowsNext == ParseLine
SpecRows == SpecRowsInit /\ [][SpecRowsNext]_vars

(***************************************************************************)
(* main.py: parse_fields, one statement or loop iteration per step          *)
(***************************************************************************)
MaxFieldLines == 2
\* a label of 70 characters, longer than a key may be
LongLabel == [k \in 1..70 |-> IF k % 10 = 0 THEN " " ELSE "A"]
FieldLinePool == {
    <<"I","n","v","o","i","c","e"," ","N","o",":"," ","1","2","3","4","5">>,
    <<"i","n","v","o","i","c","e","-","n","o"," ","="," ","7","7","7"," ">>,
    <<"N","a","m","e",":">>,
    <<"C","i","t","y",":"," ","R","o","m","e">>,
    <<"E","m","a","i","l","s",":"," ","a","@","b",".","c","o">>,
    <<"T","e","l"," ","+","1"," ","5","5","5","-","1","2","3","-","4","5","6","7">>,
    <<" ",":"," ","x">>,
    LongLabel \o <<":"," ","1">>
}
\* texts of 1..MaxFieldLines lines, as given and as ocr_image returns them
FieldTexts == {Join(ls, <<"\n">>) : ls \in SeqsOf(FieldLinePool, 1, MaxFieldLines)}
FieldInputs == FieldTexts \cup {ocr_image(t) : t \in FieldTexts}

PfInit == pfText \in FieldInputs /\ pfMatches = <<>> /\ pfIdx = 0 /\ fields = <<>> /\ pfPc = "start"
\* lines 84-87: fields = {} and the matches the loop will iterate over
PfStart ==
    /\ pfPc = "start"
    /\ pfMatches' = FindIter(kv_pattern, pfText, 1)
    /\ pfIdx' = 0
    /\ fields' = <<>>
    /\ pfPc' = "kv"
    /\ UNCHANGED <<pfText, numVars, lblVars, rowVars, dbVars, runVars>>
\* lines 87-93: the loop body on the next match
KvStep ==
    /\ pfPc = "kv" /\ pfIdx < Len(pfMatches)
    /\ fields' = KvStore(fields, pfText, pfMatches[pfIdx + 1])
    /\ pfIdx' = pfIdx + 1
    /\ UNCHANGED <<pfText, pfMatches, pfPc, numVars, lblVars, rowVars, dbVars, runVars>>
\* lines 95-97, once the loop is over
EmailsStep ==
    /\ pfPc = "kv" /\ pfIdx = Len(pfMatches)
    /\ fields' = EmailsStore(fields, pfText)
    /\ pfPc' = "phones"
    /\ UNCHANGED <<pfText, pfMatches, pfIdx, numVars, lblVars, rowVars, dbVars, runVars>>
\* lines 99-104: the phones entry, and the return
PhonesStep ==
    /\ pfPc = "phones"
    /\ fields' = PhonesStore(fields, pfText)
    /\ pfPc' = "done"
    /\ UNCHANGED <<pfText, pfMatches, pfIdx, numVars, lblVars, rowVars, dbVars, runVars>>

SpecFieldsInit == PfInit /\ NumIdle /\ LblIdle /\ RowIdle /\ DbIdle /\ RunIdle
SpecFieldsNext == PfStart \/ KvStep \/ EmailsStep \/ PhonesStep
SpecFields == SpecFieldsInit /\ [][SpecFieldsNext]_vars

(***************************************************************************)
(* parse_balance_sheet.py: main, interleaved with other writers of the      *)
(* table                                                                    *)
(***************************************************************************)
MaxWrites == 2
MaxRows == 2
\* the top-level keys other writers merge; the n-th write gives its key the value n
OtherKeys == {"invoice_no", "tags"}
JsonVal(n) == [v |-> n]
StoredTexts == {
    <<"c","a","s","h"," ","1"," ","2">>,
    <<"n","o","t","e","s"," ","3"," ","4","\n","x"," ","5"," ","6">>
}
StoredFields == {
    Null,
    Obj(EmptyMap),
    Obj([k \in {"tags"} |-> JsonVal(0)]),
    Obj([k \in {"tags", "balance_sheet"} |-> JsonVal(0)])
}
FILENAME == "doc.png"
\* the other top-level keys of a fields value
OthersOf(j) == [k \in DOMAIN Coalesce(j) \ {"balance_sheet"} |-> Coalesce(j)[k]]

DbInit ==
    /\ table \in {<<>>} \cup {<<[filename |-> FILENAME, raw_text |-> t, fields |-> f]>> :
                                t \in StoredTexts, f \in StoredFields}
    /\ lastSet = [i \in DOMAIN table |-> OthersOf(table[i].fields)]
    /\ bsPc = "fetch" /\ bsRow = None /\ bsParsed = None /\ writes = 0 /\ bsStale = FALSE
\* lines 174-178: fetch the latest row; return when there is none
BsFetch ==
    /\ bsPc = "fetch"
    /\ bsRow' = fetch_latest_ocr_row(table)
    /\ bsPc' = IF bsRow' = None THEN "done" ELSE "parse"
    /\ UNCHANGED <<table, bsParsed, writes, lastSet, bsStale, numVars, lblVars, rowVars, pfVars, runVars>>
\* line 183: parse the raw_text that was fetched
BsParse ==
    /\ bsPc = "parse"
    /\ bsParsed' = parse_balance_sheet_text(bsRow.raw_text)
    /\ bsPc' = "upsert"
    /\ UNCHANGED <<table, bsRow, writes, lastSet, bsStale, numVars, lblVars, rowVars, pfVars, runVars>>
\* an update that writes back the fields value read at fetch with the key added
BsUpsertFetched ==
    /\ bsPc = "upsert"
    /\ table' = UpdateSet(table, bsRow.id, Obj(Concat(Coalesce(bsRow.fields), BalanceSheetPatch(bsParsed))))
    /\ bsStale' = (table[bsRow.id].fields # bsRow.fields)
    /\ bsPc' = "done"
    /\ UNCHANGED <<bsRow, bsParsed, writes, lastSet, numVars, lblVars, rowVars, pfVars, runVars>>
\* lines 157-166, 187: upsert_balance_sheet(conn, _id, parsed)
BsUpsert ==
    /\ bsPc = "upsert"
    /\ table' = UpdateMerge(table, bsRow.id, BalanceSheetPatch(bsParsed))
    /\ bsStale' = (table[bsRow.id].fields # bsRow.fields)
    /\ bsPc' = "done"
    /\ UNCHANGED <<bsRow, bsParsed, writes, lastSet, numVars, lblVars, rowVars, pfVars, runVars>>
\* another writer atomically merges one of the other top-level keys into a record
WriterMerge ==
    /\ writes < MaxWrites
    /\ \E id \in DOMAIN table, k \in OtherKeys :
        /\ table' = UpdateMerge(table, id, [x \in {k} |-> JsonVal(writes + 1)])
        /\ lastSet' = [lastSet EXCEPT ![id] = Concat(@, [x \in {k} |-> JsonVal(writes + 1)])]
    /\ writes' = writes + 1
    /\ UNCHANGED <<bsPc, bsRow, bsParsed, bsStale, numVars, lblVars, rowVars, pfVars, runVars>>
\* a run of main.py inserts a new document (main.py lines 107-116, 130)
WriterInsert ==
    /\ Len(table) < MaxRows
    /\ \E t \in StoredTexts :
        /\ table' = insert_document(table, FILENAME, t, Obj([k \in {"invoice_no"} |-> JsonVal(0)]))
        /\ lastSet' = Append(lastSet, [k \in {"invoice_no"} |-> JsonVal(0)])
    /\ UNCHANGED <<bsPc, bsRow, bsParsed, writes, bsStale, numVars, lblVars, rowVars, pfVars, runVars>>

SpecStoreInit == DbInit /\ NumIdle /\ LblIdle /\ RowIdle /\ PfIdle /\ RunIdle
SpecStoreNext == BsFetch \/ BsParse \/ BsUpsert \/ WriterMerge \/ WriterInsert
SpecStore == SpecStoreInit /\ [][SpecStoreNext]_vars

(***************************************************************************)
(* main.py: main, a run over the paths given on the command line            *)
(***************************************************************************)
MaxArgs == 3
\* a path: its directory, its base name and its extension; a directory has no base name
Path(dir, name, ext) == [dir |-> dir, name |-> name, ext |-> ext]
DirPath(dir) == Path(dir, "", "")
\* the files of the run's file system: what cv2.imread and tesseract give for each
INV == Path("", "inv.png", "png")
TORN == Path("", "torn.png", "png")
BLANK == Path("", "blank.png", "png")
HUGE == Path("", "huge.png", "png")
SCAN_Q == Path("scans", "q.jpg", "jpg")
SCAN_P == Path("scans", "p.png", "png")
SCAN_NOTES == Path("scans", "notes.txt", "txt")
\* the entries of each directory, in directory order
DirListing(dir) == IF dir = "scans" THEN <<SCAN_NOTES, SCAN_Q, SCAN_P>> ELSE <<>>
Dirs == {"scans", "empty"}
\* line 61: cv2.imread gives an image
Readable(p) == p \in {INV, BLANK, HUGE, SCAN_P}
\* line 79: pytesseract.image_to_string raises on this image
TesseractRaises(p) == p = HUGE
\* line 79: the text pytesseract.image_to_string returns
TesseractText(p) ==
    IF p = INV THEN <<" ","N","o",":"," ","7"," ","\n","\n">>
    ELSE IF p = SCAN_P THEN <<"T","o","t","a","l"," ","="," ","9","\n">>
    ELSE <<" "," ","\n"," ">>
\* line 159: os.path.isdir
isdir(p) == p.name = "" /\ p.dir \in Dirs
\* lines 161-167: glob.glob(os.path.join(arg, "**", "*.<ext>"), recursive=True)
GlobExts == <<"png", "jpg", "jpeg", "tif", "tiff", "bmp", "webp">>
Glob(dir, ext) == SelectSeq(DirListing(dir), LAMBDA f : f.ext = ext)
\* lines 158-170: the paths one argument contributes
Expand(arg) ==
    IF isdir(arg) THEN Flatten(AsSeq([k \in DOMAIN GlobExts |-> Glob(arg.dir, GlobExts[k])]))
    ELSE <<arg>>
ExpandAll(args) == Flatten(AsSeq([k \in DOMAIN args |-> Expand(args[k])]))
\* line 131: os.path.basename
basename(p) == p.name
\* lines 119-135: what process_image_path does on path p with the store reachable or
\* not: returns early, raises, or inserts a row
process_image_path(p, up) ==
    IF ~Readable(p) THEN [kind |-> "unreadable"]
    ELSE IF TesseractRaises(p) THEN [kind |-> "raised"]
    ELSE IF Strip(ocr_image(TesseractText(p)), Whitespace) = <<>> THEN [kind |-> "notext"]
    ELSE IF ~up THEN [kind |-> "insert_failed"]
    ELSE [kind |-> "saved", filename |-> basename(p), raw_text |-> ocr_image(TesseractText(p)),
          fields |-> Obj(parse_fields(ocr_image(TesseractText(p))))]

ArgPool == {INV, TORN, BLANK, HUGE, DirPath("scans"), DirPath("empty")}
RunInit ==
    /\ pc = "connect" /\ argv \in SeqsOf(ArgPool, 0, MaxArgs) /\ input_paths = <<>> /\ idx = 0
    /\ attempted = <<>> /\ saved = <<>> /\ exitStatus = None /\ storeUp \in BOOLEAN
    /\ storeFailedAt = {}
\* the store becomes unreachable, or reachable again, while the run goes on
StoreFlip ==
    /\ pc # "exit"
    /\ storeUp' = ~storeUp
    /\ UNCHANGED <<pc, argv, input_paths, idx, attempted, saved, exitStatus, storeFailedAt>>
    /\ UNCHANGED <<numVars, lblVars, rowVars, pfVars, dbVars>>
\* lines 139-145: connect_db, and sys.exit(1) when it raises
Connect ==
    /\ pc = "connect"
    /\ IF storeUp THEN pc' = "ensure" /\ UNCHANGED <<exitStatus, storeFailedAt>>
       ELSE pc' = "exit" /\ exitStatus' = 1 /\ storeFailedAt' = storeFailedAt \cup {"connect"}
    /\ UNCHANGED <<argv, input_paths, idx, attempted, saved, storeUp>>
    /\ UNCHANGED <<numVars, lblVars, rowVars, pfVars, dbVars>>
\* line 147: ensure_table(conn); an exception it raises is not caught and ends the
\* interpreter with status 1
EnsureTable ==
    /\ pc = "ensure"
    /\ IF storeUp THEN pc' = "args" /\ UNCHANGED <<exitStatus, storeFailedAt>>
       ELSE pc' = "exit" /\ exitStatus' = 1 /\ storeFailedAt' = storeFailedAt \cup {"ensure"}
    /\ UNCHANGED <<argv, input_paths, idx, attempted, saved, storeUp>>
    /\ UNCHANGED <<numVars, lblVars, rowVars, pfVars, dbVars>>
\* lines 149-174: the usage exit, input_paths, and the return when it is empty
Args ==
    /\ pc = "args"
    /\ input_paths' = ExpandAll(argv)
    /\ IF argv = <<>> \/ input_paths' = <<>> THEN pc' = "exit" /\ exitStatus' = 0
       ELSE pc' = "loop" /\ UNCHANGED exitStatus
    /\ UNCHANGED <<argv, idx, attempted, saved, storeUp, storeFailedAt>>
    /\ UNCHANGED <<numVars, lblVars, rowVars, pfVars, dbVars>>
\* the row an outcome of process_image_path inserts
Inserted(tbl, out) ==
    IF out.kind = "saved" THEN insert_document(tbl, out.filename, out.raw_text, out.fields) ELSE tbl
\* a loop body without the try/except: an exception ends the run with status 1
ProcessUnguarded ==
    /\ pc = "loop" /\ idx < Len(input_paths)
    /\ attempted' = Append(attempted, input_paths[idx + 1])
    /\ saved' = Inserted(saved, process_image_path(input_paths[idx + 1], storeUp))
    /\ storeFailedAt' = IF process_image_path(input_paths[idx + 1], storeUp).kind = "insert_failed"
                        THEN storeFailedAt \cup {"insert"} ELSE storeFailedAt
    /\ IF process_image_path(input_paths[idx + 1], storeUp).kind \in {"raised", "insert_failed"}
       THEN pc' = "exit" /\ exitStatus' = 1 /\ UNCHANGED idx
       ELSE idx' = idx + 1 /\ UNCHANGED <<pc, exitStatus>>
    /\ UNCHANGED <<argv, input_paths, storeUp>>
    /\ UNCHANGED <<numVars, lblVars, rowVars, pfVars, dbVars>>
\* lines 176-181: one iteration of the loop; any Exception of process_image_path is
\* caught and the loop goes on
Process ==
    /\ pc = "loop" /\ idx < Len(input_paths)
    /\ attempted' = Append(attempted, input_paths[idx + 1])
    /\ saved' = Inserted(saved, process_image_path(input_paths[idx + 1], storeUp))
    /\ storeFailedAt' = IF process_image_path(input_paths[idx + 1], storeUp).kind = "insert_failed"
                        THEN storeFailedAt \cup {"insert"} ELSE storeFailedAt
    /\ idx' = idx + 1
    /\ UNCHANGED <<pc, argv, input_paths, storeUp, exitStatus>>
    /\ UNCHANGED <<numVars, lblVars, rowVars, pfVars, dbVars>>
\* line 181, after the last path: main returns and the interpreter exits with status 0
LoopEnd ==
    /\ pc = "loop" /\ idx = Len(input_paths)
    /\ pc' = "exit" /\ exitStatus' = 0
    /\ UNCHANGED <<argv, input_paths, idx, attempted, saved, storeUp, storeFailedAt>>
    /\ UNCHANGED <<numVars, lblVars, rowVars, pfVars, dbVars>>

SpecBatchInit == RunInit /\ NumIdle /\ LblIdle /\ RowIdle /\ PfIdle /\ DbIdle
SpecBatchNext == StoreFlip \/ Connect \/ EnsureTable \/ Args \/ Process \/ LoopEnd
SpecBatch == SpecBatchInit /\ [][SpecBatchNext]_vars

(***************************************************************************)
(* Properties of num_clean (SpecNum)                                        *)
(***************************************************************************)
\* digit groups joined by single separators: digits at both ends, no two separators adjacent
IsGrouped(body) ==
    /\ body # <<>>
    /\ \A i \in DOMAIN body : body[i] \in Digits \cup {",", "."}
    /\ body[1] \in Digits /\ body[Len(body)] \in Digits
    /\ \A i \in 1..(Len(body) - 1) : body[i] \in Digits \/ body[i + 1] \in Digits
\* an optional leading minus, then digit groups separated only by commas, or only by two
\* or more periods, or by commas together with two or more periods
InSeparatorClaim(tok) ==
    /\ tok # <<>>
    /\ IsGrouped(IF Head(tok) = "-" THEN Tail(tok) ELSE tok)
    /\ Count(tok, ".") # 1
\* the integer spelled by the digits of the token, negated when signed
Spelled(tok) == PyInt(Head(tok) = "-", Norm(DigitsOf(SelectSeq(tok, LAMBDA c : c \in Digits))))
HasNoDigit(tok) == \A i \in DOMAIN tok : tok[i] \notin Digits

\* C9: for every token that is an optional minus followed by digit groups separated only
\* by commas, only by two or more periods, or by commas with two or more periods,
\* num_clean returns the integer spelled by the token's digits (negated when signed);
\* a token with no digits gives None.
C9_SeparatorsRemoved ==
    numOut # Pending =>
        /\ InSeparatorClaim(numTok) => numOut = Spelled(numTok)
        /\ HasNoDigit(numTok) => numOut = None

(***************************************************************************)
(* Properties of clean_label (SpecLabel)                                    *)
(***************************************************************************)
\* C2: clean_label is the identity on every caption of _CANON_MAP.
C2_CanonIdentity ==
    (lblOut # Pending /\ lblIn \in Range(CANON_KEYS)) => lblOut = lblIn

(***************************************************************************)
(* Properties of parse_balance_sheet_text and extract_two_years_from_line   *)
(* (SpecRows)                                                               *)
(***************************************************************************)
\* the rows of the results that are the first of their label, in order
FirstRows(rs) ==
    Flatten([i \in DOMAIN rs |->
        IF rs[i] # None /\ ~\E j \in 1..(i - 1) : rs[j] # None /\ rs[j].label = rs[i].label
        THEN <<RowOf(rs[i])>> ELSE <<>>])

\* C1: the rows are exactly the first-occurrence filter of the qualifying lines: no two
\* rows share a label, each row carries the values of the first line that resolved to its
\* label, later lines with a seen label change nothing, and rows are in first-appearance
\* order.  It holds after every line processed, so for the value returned.
C1_FirstOccurrence ==
    /\ rows = FirstRows(results)
    /\ \A i, j \in DOMAIN rows : i # j => rows[i].label # rows[j].label
    /\ seen = {rows[i].label : i \in DOMAIN rows}

\* C1 case: the whole text is parsed, two lines resolved to one label with different
\* values, and the only row is the first line's.
C1_Witness ==
    /\ ParseDone /\ Len(results) = 2
    /\ results[1] # None /\ results[2] # None
    /\ results[1].label = results[2].label
    /\ results[1].v2022 # results[2].v2022
    /\ rows = <<RowOf(results[1])>>

\* the i-th line of raw_text, stripped (line 96), and its numeric tokens (line 102)
StrippedLine(i) == Strip(SplitLines(raw_text)[i], Whitespace)
NumsOf(s) == FindAll(NumTokPat, s)
\* the line is non-blank, no header, and has at least two numeric tokens
HasTwoNums(s) == s # <<>> /\ ~IsHeader(s) /\ Len(NumsOf(s)) >= 2
IntOrNone(v) == v = None \/ IsPyInt(v)
\* what C7 requires of the result res of a line with tokens a and b and label remainder lp
SurvivalRule(res, a, b, lp) ==
    /\ res # None <=> (clean_label(lp) # <<>> /\ (num_clean(a) # None \/ num_clean(b) # None))
    /\ res # None =>
        /\ res.v2022 = num_clean(a) /\ res.v2021 = num_clean(b)
        /\ IntOrNone(res.v2022) /\ IntOrNone(res.v2021)
        /\ res.label = clean_label(lp)

\* C7: for a non-blank, non-header line with at least two numeric tokens, a row is
\* produced iff the normalized label is non-empty and at least one of the two cleaned
\* values is not None; a token that fails cleaning gives None for its period and the
\* other keeps its integer; a produced row's values are integers or None.
C7_RowSurvival ==
    \A i \in DOMAIN results :
        HasTwoNums(StrippedLine(i)) =>
            SurvivalRule(results[i],
                         NumsOf(StrippedLine(i))[Len(NumsOf(StrippedLine(i))) - 1],
                         NumsOf(StrippedLine(i))[Len(NumsOf(StrippedLine(i)))],
                         LabelPart(StrippedLine(i)))

\* C7 case: a line whose first token fails cleaning and whose second parses has been
\* processed, and its row is in the table with None and the integer.
C7_Witness ==
    \E i \in DOMAIN results :
        /\ HasTwoNums(StrippedLine(i))
        /\ results[i] # None
        /\ results[i].v2022 = None /\ IsPyInt(results[i].v2021)
        /\ \E k \in DOMAIN rows : rows[k] = RowOf(results[i])

\* the text without its whitespace
NoSpace(s) == SelectSeq(s, LAMBDA c : c \notin Whitespace)
\* s without the spans of the matches ms
Without(s, ms) ==
    Unwrap(SelectSeq([k \in DOMAIN s |->
                        IF \E m \in Range(ms) : m.start <= k /\ k < m.end THEN <<>> ELSE <<s[k]>>],
                     LAMBDA x : x # <<>>))
\* s with exactly its last two numeric tokens removed
LastTwoRemoved(s) ==
    Without(s, SubSeq(FindIter(NumTokPat, s, 1), Len(NumsOf(s)) - 1, Len(NumsOf(s))))

\* C10: for a non-blank, non-header line with at least two numeric tokens, the text
\* passed to clean_label is the line with exactly the last two numeric tokens removed
\* (compared up to whitespace): neither token remains and nothing else is removed.
C10_LabelRemainder ==
    \A i \in DOMAIN results :
        HasTwoNums(StrippedLine(i)) =>
            NoSpace(LabelPart(StrippedLine(i))) = NoSpace(LastTwoRemoved(StrippedLine(i)))

(***************************************************************************)
(* Properties of parse_fields (SpecFields)                                  *)
(***************************************************************************)
\* the <label>[:=]<value> lines of a text: per line, whether it has that shape, its
\* normalized key and its trimmed value
KvOfLine(l, ms) ==
    IF ms = <<>> THEN [kv |-> FALSE]
    ELSE [kv |-> TRUE, key |-> KeyOf(Group(l, ms[1], 1)), val |-> ValOf(Group(l, ms[1], 2))]
KvOfLines(ls) == [i \in DOMAIN ls |-> KvOfLine(ls[i], FindIter(kv_pattern, ls[i], 1))]
KvLines(txt) == KvOfLines(SplitLines(txt))
\* the map f holds, under the key of every such line, the value of the last line with the key
LastWins(f, kl) ==
    \A i \in DOMAIN kl :
        (kl[i].kv /\ kl[i].key # <<>> /\ ~\E j \in (i + 1)..Len(kl) : kl[j].kv /\ kl[j].key = kl[i].key)
        => (kl[i].key \in DOMAIN f /\ f[kl[i].key] = StrVal(kl[i].val))

\* C3: parse_fields is last-match-wins: for every key obtained by normalizing the label
\* of at least one <label>[:=]<value> line, the returned map holds under that key the
\* trimmed value of the last such line, the keys "emails" and "phones" included.
C3_LastMatchWins == pfPc = "done" => LastWins(fields, KvLines(pfText))

ValidKey(k) == k # <<>> /\ Len(k) <= 64 /\ \A i \in DOMAIN k : k[i] \in Lowers \cup Digits \cup {"_"}

\* C8: every key of the field map is non-empty, at most 64 characters long and made of
\* [a-z0-9_] only, after every match processed and in the returned map with its emails
\* and phones entries.
C8_KeysValid == \A k \in DOMAIN fields : ValidKey(k)

\* C8 case: parse_fields has returned a map with a key that was cut to 64 characters
\* next to an emails or phones entry, on a text with a line whose key came out empty or
\* with a second key.
C8_Witness ==
    /\ pfPc = "done"
    /\ \E k \in DOMAIN fields : Len(k) = 64
    /\ Cardinality(DOMAIN fields) >= 2
    /\ (EMAILS \in DOMAIN fields \/ PHONES \in DOMAIN fields)

(***************************************************************************)
(* Properties of the balance-sheet update (SpecStore)                       *)
(***************************************************************************)
\* every other top-level key of every record has the value its writer last set, and
\* there are no others
OthersKept == \A id \in DOMAIN table : OthersOf(table[id].fields) = lastSet[id]
\* once the run is over, the record it fetched holds the parse result under
\* "balance_sheet" and its raw_text is the one fetched
SheetMerged ==
    (bsPc = "done" /\ bsRow # None) =>
        /\ "balance_sheet" \in DOMAIN Coalesce(table[bsRow.id].fields)
        /\ Coalesce(table[bsRow.id].fields)["balance_sheet"] = bsParsed
        /\ table[bsRow.id].raw_text = bsRow.raw_text

\* C4: for any interleaving of a balance-sheet run (fetch, parse, upsert) with writers
\* that atomically merge other top-level keys, the fields contain every other top-level
\* key with the value its writer last set plus "balance_sheet"; the update removes or
\* changes no other key and leaves raw_text alone (no lost update from the fields value
\* read at fetch).
C4_AdditiveMerge == OthersKept /\ SheetMerged

\* C4 case: the run is over, and between its fetch and its update another writer had
\* changed the fields of the record it updated.
C4_Witness ==
    /\ bsPc = "done" /\ bsRow # None /\ bsStale
    /\ DOMAIN lastSet[bsRow.id] # {}
    /\ "balance_sheet" \in DOMAIN Coalesce(table[bsRow.id].fields)

(***************************************************************************)
(* Claims about the batch loop and the store failures of main.py            *)
(***************************************************************************)
\* C5: per-document failures are isolated in the batch loop: whatever the outcomes of
\* the items (unreadable image, no text, an exception), the paths handed to
\* process_image_path so far are the first idx input paths in list order, each once,
\* the loop is still running after any of them, and a run that entered the loop ends
\* only after the last path, with status 0.
C5_FailuresIsolated ==
    /\ idx <= Len(input_paths)
    /\ attempted = SubSeq(input_paths, 1, idx)
    /\ idx < Len(input_paths) => pc = "loop"
    /\ pc = "exit" /\ input_paths # <<>> => attempted = input_paths /\ exitStatus = 0
\* a finished run where an item raised, the next one was unreadable or had no text, and
\* an item after them was saved
C5_Witness ==
    /\ pc = "exit" /\ attempted = input_paths
    /\ \E i, j, k \in DOMAIN input_paths :
        /\ i < j /\ j < k
        /\ process_image_path(input_paths[i], TRUE).kind = "raised"
        /\ process_image_path(input_paths[j], TRUE).kind \in {"unreadable", "notext"}
        /\ process_image_path(input_paths[k], TRUE).kind = "saved"
        /\ \E r \in DOMAIN saved : saved[r].filename = basename(input_paths[k])

\* C6: store unavailability is fatal: a run during which the store was found unavailable
\* (at connect, at table setup or at an insert of the batch) does not end with status 0,
\* and a run ends with a non-zero status only when the store was found unavailable.
C6_StoreFatal ==
    /\ pc = "exit" /\ storeFailedAt # {} => exitStatus # 0
    /\ pc = "exit" /\ exitStatus # 0 => storeFailedAt # {}

====
